---- MODULE Spec2Model ----
(***************************************************************************)
(* Model of merger.py: a command-line program that merges the yearly CSV   *)
(* files <prefix>_20*.csv of the working directory into <prefix>.csv.      *)
(*                                                                         *)
(* Strings (file names, prefixes, glob patterns) are sequences of          *)
(* one-character strings, so that the regular expression of extract_year   *)
(* and the wildcard pattern of glob.glob are evaluated character by        *)
(* character.  A CSV file is the sequence of rows csv.reader yields for    *)
(* it; the output is the sequence of rows handed to csv.writer.writerow.   *)
(***************************************************************************)
EXTENDS Integers, Sequences, FiniteSets, TLC

(***************************************************************************)
(* Characters and string helpers                                           *)
(***************************************************************************)
NL == "\n"

\* the decimal digits \d matches among the characters used here (ASCII)
DigitChars == <<"0", "1", "2", "3", "4", "5", "6", "7", "8", "9">>

IsDigit(c) == \E n \in 1..10 : DigitChars[n] = c

DigitVal(c) == (CHOOSE n \in 1..10 : DigitChars[n] = c) - 1

StartsWith(s, p) == Len(s) >= Len(p) /\ SubSeq(s, 1, Len(p)) = p

SetMin(S) == CHOOSE x \in S : \A y \in S : x <= y

DotCsv == <<".", "c", "s", "v">>

(***************************************************************************)
(* extract_year: re.match(escape(prefix) .*? _(\d{4}) \.csv $, filename)   *)
(***************************************************************************)
\* float('inf'): greater than every int(\d{4}), which is at most 9999
Inf == 10000

\* int(match.group(1)) for the four digits at positions i .. i+3
IntOfGroup(s, i) ==
    1000 * DigitVal(s[i]) + 100 * DigitVal(s[i + 1])
        + 10 * DigitVal(s[i + 2]) + DigitVal(s[i + 3])

\* `$` without re.MULTILINE: at the end of the string, or just before a
\* newline that is the last character of the string
DollarAt(s, pos) ==
    \/ pos = Len(s) + 1
    \/ pos = Len(s) /\ s[Len(s)] = NL

\* `_(\d{4})\.csv$` matched with its first character at position i
YearTailAt(s, i) ==
    /\ i + 8 <= Len(s)
    /\ s[i] = "_"
    /\ \A k \in 1..4 : IsDigit(s[i + k])
    /\ SubSeq(s, i + 5, i + 8) = DotCsv
    /\ DollarAt(s, i + 9)

\* `.*?` may consume positions from .. i-1: `.` matches anything but newline
DotStarSpan(s, from, i) == \A k \in from..(i - 1) : s[k] # NL

\* positions at which the tail can start after the escaped (literal) prefix
YearMatches(filename, prefix) ==
    IF StartsWith(filename, prefix)
    THEN {i \in (Len(prefix) + 1)..Len(filename) :
            /\ YearTailAt(filename, i)
            /\ DotStarSpan(filename, Len(prefix) + 1, i)}
    ELSE {}

\* the lazy quantifier takes the first position that lets the rest match
extract_year(filename, prefix) ==
    LET matches == YearMatches(filename, prefix)
    IN  IF matches # {} THEN IntOfGroup(filename, SetMin(matches) + 1) ELSE Inf

(***************************************************************************)
(* glob.glob(f"{prefix}_20*.csv"): wildcard matching of directory entries  *)
(***************************************************************************)
\* fnmatch: index of the `]` closing the class opened by pat[1] = "[", or 0
\* when there is none (the `[` is then an ordinary character).  A `!` right
\* after `[` and a `]` right after that are part of the class.
ClassEnd(pat) ==
    LET j1 == IF Len(pat) >= 2 /\ pat[2] = "!" THEN 3 ELSE 2
        j2 == IF Len(pat) >= j1 /\ pat[j1] = "]" THEN j1 + 1 ELSE j1
        closers == {k \in j2..Len(pat) : pat[k] = "]"}
    IN  IF closers = {} THEN 0 ELSE SetMin(closers)

\* does character c belong to the class pat[1..end] = "[" stuff "]"; the
\* classes used here hold no "-", so none of them is a range
InClass(pat, end, c) ==
    LET negated == pat[2] = "!"
        first == IF negated THEN 3 ELSE 2
        member == \E k \in first..(end - 1) : pat[k] = c
    IN  IF negated THEN ~member ELSE member

\* fnmatch.fnmatchcase(s, pat) for one path; a wildcard never crosses a "/"
\* because glob matches each path component on its own
RECURSIVE FnMatch(_, _)
FnMatch(pat, s) ==
    IF pat = <<>> THEN s = <<>>
    ELSE IF Head(pat) = "*"
    THEN \E k \in 0..Len(s) :
            /\ \A m \in 1..k : s[m] # "/"
            /\ FnMatch(Tail(pat), SubSeq(s, k + 1, Len(s)))
    ELSE IF Head(pat) = "?"
    THEN s # <<>> /\ Head(s) # "/" /\ FnMatch(Tail(pat), Tail(s))
    ELSE IF Head(pat) = "[" /\ ClassEnd(pat) > 0
    THEN /\ s # <<>>
         /\ Head(s) # "/"
         /\ InClass(pat, ClassEnd(pat), Head(s))
         /\ FnMatch(SubSeq(pat, ClassEnd(pat) + 1, Len(pat)), Tail(s))
    ELSE s # <<>> /\ Head(s) = Head(pat) /\ FnMatch(Tail(pat), Tail(s))

\* start position of the last path component
BaseStart(path) ==
    LET slashes == {k \in 1..Len(path) : path[k] = "/"}
    IN  IF slashes = {} THEN 1 ELSE (CHOOSE k \in slashes : \A m \in slashes : m <= k) + 1

\* glob._ishidden: an entry whose name starts with "." is listed only when
\* the pattern's name starts with "." too
HiddenOk(pat, path) ==
    LET b == BaseStart(path)
        pb == BaseStart(pat)
    IN  (b <= Len(path) /\ path[b] = ".") => (pb <= Len(pat) /\ pat[pb] = ".")

\* variant: the pattern lacks the "_20" that keeps <prefix>.csv out
GlobPatternAnySuffix(prefix) == prefix \o <<"*">> \o DotCsv

\* f"{prefix}_20*.csv"
GlobPattern(prefix) == prefix \o <<"_", "2", "0", "*">> \o DotCsv

\* the set of paths glob.glob returns among the existing directory entries
Glob(pat, existing) == {p \in existing : FnMatch(pat, p) /\ HiddenOk(pat, p)}

\* f"{prefix}.csv"
OutputName(prefix) == prefix \o DotCsv

\* Path(f).name: the last component of the path
PathName(path) == SubSeq(path, BaseStart(path), Len(path))

(***************************************************************************)
(* The inputs the model draws from: prefixes, directory entries, rows      *)
(***************************************************************************)
\* greatest number of matching input files present in the directory
MaxFiles == 3

\* greatest number of those files that are unreadable or empty
MaxBad == 1

\* number of consecutive invocations of the program with the same arguments
MaxRuns == 2

PrefixPlain == <<"s">>
PrefixMeta == <<"*", "[", "_", "2", "0", "_", "2", "0", "]">>
PrefixDir == <<"d", "/", "s">>
Prefixes == {PrefixPlain, PrefixMeta, PrefixDir}

F2023 == <<"s", "_", "2", "0", "2", "3", ".", "c", "s", "v">>
F2022 == <<"s", "_", "2", "0", "2", "2", ".", "c", "s", "v">>
Fx2022 == <<"s", "_", "2", "0", "x", "_", "2", "0", "2", "2", ".", "c", "s", "v">>
FNl2021 == <<"s", "_", "2", "0", NL, "_", "2", "0", "2", "1", ".", "c", "s", "v">>
FZero == <<"0", "_", "2", "0", "2", "3", ".", "c", "s", "v">>
FDir2021 == <<"d", "/", "s", "_", "2", "0", "2", "1", ".", "c", "s", "v">>
FDir2020 == <<"d", "/", "s", "_", "2", "0", "2", "0", ".", "c", "s", "v">>
FOther == <<"t", "_", "2", "0", "2", "1", ".", "c", "s", "v">>
FHidden == <<".", "0", "_", "2", "0", "2", "1", ".", "c", "s", "v">>

\* entries that may or may not be present
Candidates == {F2023, F2022, Fx2022, FNl2021, FZero, FDir2021, FDir2020}

\* entries that are always present and readable
Bystanders == {FOther, FHidden}

OutputNames == {OutputName(p) : p \in Prefixes}

AllPaths == Candidates \cup Bystanders \cup OutputNames

H1 == <<"id", "amt">>
H2 == <<"id", "qty">>
R1 == <<"1", "10">>
R2 == <<"2", "20">>
R3 == <<"3", "5">>

\* the rows csv.reader yields for an entry when it is a readable, non-empty file
GoodRows(path) ==
    IF path = F2023 THEN <<H1, R1, R2>>
    ELSE IF path = F2022 THEN <<H1, R3>>
    ELSE IF path = Fx2022 THEN <<H2>>
    ELSE IF path = FNl2021 THEN <<H2, R3, R3>>
    ELSE IF path = FDir2020 THEN <<H2, R2>>
    ELSE <<H1, R1>>

Absent == [st |-> "absent", rows |-> <<>>]
Denied == [st |-> "denied", rows |-> <<>>]
File(rows) == [st |-> "file", rows |-> rows]

\* what an input entry can be: unreadable, an empty file, or a CSV document
InputKinds == {"denied", "empty", "good"}

InputState(path, kind) ==
    IF kind = "denied" THEN Denied
    ELSE IF kind = "empty" THEN File(<<>>)
    ELSE File(GoodRows(path))

\* what <prefix>.csv can be before the run: missing, unwritable, or left over
OutputStates == {Absent, Denied, File(<<H2, R2>>)}

Existing(dir) == {p \in DOMAIN dir : dir[p].st # "absent"}

\* the directory holding the input entries S (of the given kinds) and out
MkDir(p, S, kinds, out) ==
    [q \in AllPaths |->
        IF q \in S THEN InputState(q, kinds[q])
        ELSE IF q \in Bystanders THEN File(GoodRows(q))
        ELSE IF q = OutputName(p) THEN out
        ELSE Absent]

\* the directories the program may be started in with prefix p: at most
\* MaxFiles of the candidates its pattern matches, at most MaxBad of them
\* unreadable or empty, and the fixed bystanders
Directories(p) ==
    UNION {{MkDir(p, S, kinds, out) :
                kinds \in {k \in [S -> InputKinds] :
                             Cardinality({q \in S : k[q] # "good"}) <= MaxBad},
                out \in OutputStates} :
           S \in {T \in SUBSET Glob(GlobPattern(p), Candidates) : Cardinality(T) <= MaxFiles}}

(***************************************************************************)
(* files.sort(key=lambda f: extract_year(Path(f).name, prefix))            *)
(***************************************************************************)
SortKey(f, prefix) == extract_year(PathName(f), prefix)

\* variant: an unstable sort, f goes in front of elements with an equal key
InsertByKeyBeforeEqual(sorted, f, prefix) ==
    LET later == {k \in 1..Len(sorted) : SortKey(sorted[k], prefix) >= SortKey(f, prefix)}
        at == IF later = {} THEN Len(sorted) + 1 ELSE SetMin(later)
    IN  SubSeq(sorted, 1, at - 1) \o <<f>> \o SubSeq(sorted, at, Len(sorted))

\* f goes in front of the first element whose key is greater than its own,
\* hence behind every element with an equal key (list.sort is stable)
InsertByKey(sorted, f, prefix) ==
    LET later == {k \in 1..Len(sorted) : SortKey(sorted[k], prefix) > SortKey(f, prefix)}
        at == IF later = {} THEN Len(sorted) + 1 ELSE SetMin(later)
    IN  SubSeq(sorted, 1, at - 1) \o <<f>> \o SubSeq(sorted, at, Len(sorted))

RECURSIVE SortFrom(_, _, _)
SortFrom(sorted, rest, prefix) ==
    IF rest = <<>> THEN sorted
    ELSE SortFrom(InsertByKey(sorted, Head(rest), prefix), Tail(rest), prefix)

\* variant: the list is left in discovery order
SortFilesOmitted(fl, prefix) == fl

SortFiles(fl, prefix) == SortFrom(<<>>, fl, prefix)

\* the orders in which glob.glob may return a set of entries
Orderings(S) ==
    {o \in [1..Cardinality(S) -> S] : \A a, b \in 1..Cardinality(S) : a # b => o[a] # o[b]}

(***************************************************************************)
(* State of one invocation of main()                                       *)
(***************************************************************************)
VARIABLES
    argv,        \* sys.argv[1:]
    fs,          \* the directory: path -> entry
    pc,          \* the statement main() is at
    prefix,      \* sys.argv[1]
    files,       \* the list `files`
    i,           \* 1-based index of the file the for loop is at
    header,      \* the local `header`
    writer,      \* FALSE while `writer is None`
    pos,         \* index of the next row `reader` yields
    outOpen,     \* outfile is open
    inOpen,      \* the set of input paths currently open
    outbuf,      \* rows written to outfile (buffered until it is closed)
    stdout,      \* lines printed
    exitCode,    \* process exit status, -1 while running
    fault,       \* the uncaught exception, "none" if there is none
    discovered,  \* history: the list glob.glob returned, before sorting
    outSrc,      \* history: for each row of outbuf, where it came from
    io,          \* history: open/close/print events of this run
    fs0,         \* history: the directory when this run started
    run,         \* number of the current invocation
    prev,        \* history: outcome of the previous invocation
    qName, qPrefix, qYear   \* arguments and result of a call of extract_year

env == <<argv, fs0, run, prev>>
locals == <<prefix, files, i, header, writer, pos, discovered>>
hist == <<outSrc, io>>
query == <<qName, qPrefix, qYear>>
vars == <<argv, fs, pc, prefix, files, i, header, writer, pos, outOpen, inOpen,
          outbuf, stdout, exitCode, fault, discovered, outSrc, io, fs0, run,
          prev, qName, qPrefix, qYear>>

NoPrev == [code |-> -1, discovered |-> <<>>, content |-> Absent]

Msg(kind, arg) == [msg |-> kind, arg |-> arg]
Ev(kind, path) == [ev |-> kind, path |-> path]

Fresh ==
    /\ pc = "start"
    /\ prefix = <<>>
    /\ files = <<>>
    /\ i = 0
    /\ header = <<>>
    /\ writer = FALSE
    /\ pos = 0
    /\ outOpen = FALSE
    /\ inOpen = {}
    /\ outbuf = <<>>
    /\ stdout = <<>>
    /\ exitCode = -1
    /\ fault = "none"
    /\ discovered = <<>>
    /\ outSrc = <<>>
    /\ io = <<>>

NoQuery == qName = <<>> /\ qPrefix = <<>> /\ qYear = -1

Init ==
    /\ \E p \in Prefixes, n \in 0..2 :
        /\ argv = [k \in 1..n |-> p]
        /\ fs \in Directories(p)
    /\ fs0 = fs
    /\ run = 1
    /\ prev = NoPrev
    /\ Fresh
    /\ NoQuery

OutPath == OutputName(prefix)

\* sys.exit(code), or the interpreter ending the process
Exit(code) == pc' = "exit" /\ exitCode' = code

\* lines 13-17
CheckArgs ==
    /\ pc = "start"
    /\ IF Len(argv) # 1
       THEN /\ stdout' = Append(stdout, Msg("Usage", <<>>))
            /\ Exit(1)
            /\ UNCHANGED prefix
       ELSE /\ prefix' = argv[1]
            /\ pc' = "glob"
            /\ UNCHANGED <<stdout, exitCode>>
    /\ UNCHANGED <<env, fs, files, i, header, writer, pos, discovered, outOpen,
                   inOpen, outbuf, fault, hist, query>>

\* variant: the output file is created before the list is found empty
DiscoverCreatesOutput ==
    /\ pc = "glob"
    /\ \E found \in Orderings(Glob(GlobPattern(prefix), Existing(fs))) :
        /\ files' = found
        /\ discovered' = found
        /\ IF found = <<>>
           THEN /\ stdout' = Append(stdout, Msg("NoMatch", prefix))
                /\ fs' = [fs EXCEPT ![OutPath] = File(<<>>)]
                /\ Exit(1)
           ELSE /\ pc' = "sort"
                /\ UNCHANGED <<stdout, exitCode, fs>>
    /\ UNCHANGED <<env, prefix, i, header, writer, pos, outOpen, inOpen,
                   outbuf, fault, hist, query>>

\* lines 18-22
Discover ==
    /\ pc = "glob"
    /\ \E found \in Orderings(Glob(GlobPattern(prefix), Existing(fs))) :
        /\ files' = found
        /\ discovered' = found
        /\ IF found = <<>>
           THEN /\ stdout' = Append(stdout, Msg("NoMatch", prefix))
                /\ Exit(1)
           ELSE /\ pc' = "sort"
                /\ UNCHANGED <<stdout, exitCode>>
    /\ UNCHANGED <<env, fs, prefix, i, header, writer, pos, outOpen, inOpen,
                   outbuf, fault, hist, query>>

\* line 25
Sort ==
    /\ pc = "sort"
    /\ files' = SortFiles(files, prefix)
    /\ pc' = "open_out"
    /\ UNCHANGED <<env, fs, prefix, i, header, writer, pos, discovered, outOpen,
                   inOpen, outbuf, stdout, exitCode, fault, hist, query>>

\* line 28, entering `with open(output_file, "w")`: the file is created or
\* truncated; what is written stays in the buffer until the file is closed
\* (the rows of the model never fill a buffer of io.DEFAULT_BUFFER_SIZE bytes)
OpenOutput ==
    /\ pc = "open_out"
    /\ IF fs[OutPath].st = "denied"
       THEN /\ fault' = "PermissionError"
            /\ Exit(1)
            /\ UNCHANGED <<fs, outOpen, outbuf, outSrc, io, writer, i>>
       ELSE /\ fs' = [fs EXCEPT ![OutPath] = File(<<>>)]
            /\ outOpen' = TRUE
            /\ outbuf' = <<>>
            /\ outSrc' = <<>>
            /\ io' = Append(io, Ev("open_out", OutPath))
            /\ writer' = FALSE
            /\ i' = 1
            /\ pc' = "loop"
            /\ UNCHANGED <<fault, exitCode>>
    /\ UNCHANGED <<env, prefix, files, header, pos, discovered, inOpen, stdout, query>>

\* variant: no progress line is printed
NextFileSilent ==
    /\ pc = "loop"
    /\ pc' = (IF i <= Len(files) THEN "open_in" ELSE "close_out")
    /\ UNCHANGED <<env, fs, prefix, files, i, header, writer, pos, discovered,
                   outOpen, inOpen, outbuf, stdout, exitCode, fault, hist, query>>

\* lines 31-32: the for loop takes the next file, or ends
NextFile ==
    /\ pc = "loop"
    /\ IF i <= Len(files)
       THEN /\ stdout' = Append(stdout, Msg("Processing", files[i]))
            /\ pc' = "open_in"
       ELSE /\ pc' = "close_out"
            /\ UNCHANGED stdout
    /\ UNCHANGED <<env, fs, prefix, files, i, header, writer, pos, discovered,
                   outOpen, inOpen, outbuf, exitCode, fault, hist, query>>

\* line 33, entering `with open(file)`
OpenInput ==
    /\ pc = "open_in"
    /\ IF fs[files[i]].st = "file"
       THEN /\ inOpen' = inOpen \cup {files[i]}
            /\ io' = Append(io, Ev("open_in", files[i]))
            /\ pos' = 1
            /\ pc' = "header"
            /\ UNCHANGED fault
       ELSE /\ fault' = "PermissionError"
            /\ pc' = "unwind_out"
            /\ UNCHANGED <<inOpen, io, pos>>
    /\ UNCHANGED <<env, fs, prefix, files, i, header, writer, discovered, outOpen,
                   outbuf, outSrc, stdout, exitCode, query>>

\* variant: a file without rows is skipped instead of failing the run
ReadHeaderSkipsEmpty ==
    /\ pc = "header"
    /\ IF pos <= Len(fs[files[i]].rows)
       THEN /\ header' = fs[files[i]].rows[pos]
            /\ pos' = pos + 1
            /\ pc' = "write_header"
       ELSE /\ pc' = "close_in"
            /\ UNCHANGED <<header, pos>>
    /\ UNCHANGED <<env, fs, prefix, files, i, writer, discovered, outOpen, inOpen,
                   outbuf, stdout, exitCode, fault, hist, query>>

\* lines 34-35: next(reader) raises StopIteration on a file without rows
ReadHeader ==
    /\ pc = "header"
    /\ IF pos <= Len(fs[files[i]].rows)
       THEN /\ header' = fs[files[i]].rows[pos]
            /\ pos' = pos + 1
            /\ pc' = "write_header"
            /\ UNCHANGED fault
       ELSE /\ fault' = "StopIteration"
            /\ pc' = "unwind_in"
            /\ UNCHANGED <<header, pos>>
    /\ UNCHANGED <<env, fs, prefix, files, i, writer, discovered, outOpen, inOpen,
                   outbuf, stdout, exitCode, hist, query>>

\* variant: every file's header is written
WriteHeaderEveryFile ==
    /\ pc = "write_header"
    /\ writer' = TRUE
    /\ outbuf' = Append(outbuf, header)
    /\ outSrc' = Append(outSrc, [kind |-> "header", src |-> files[i], idx |-> 1])
    /\ pc' = "rows"
    /\ UNCHANGED <<env, fs, prefix, files, i, header, pos, discovered, outOpen,
                   inOpen, stdout, exitCode, fault, io, query>>

\* lines 37-39
WriteHeader ==
    /\ pc = "write_header"
    /\ IF ~writer
       THEN /\ writer' = TRUE
            /\ outbuf' = Append(outbuf, header)
            /\ outSrc' = Append(outSrc, [kind |-> "header", src |-> files[i], idx |-> 1])
       ELSE UNCHANGED <<writer, outbuf, outSrc>>
    /\ pc' = "rows"
    /\ UNCHANGED <<env, fs, prefix, files, i, header, pos, discovered, outOpen,
                   inOpen, stdout, exitCode, fault, io, query>>

\* variant: the last row of each file is not copied
CopyRowDropsLast ==
    /\ pc = "rows"
    /\ IF pos < Len(fs[files[i]].rows)
       THEN /\ outbuf' = Append(outbuf, fs[files[i]].rows[pos])
            /\ outSrc' = Append(outSrc, [kind |-> "data", src |-> files[i], idx |-> pos])
            /\ pos' = pos + 1
            /\ UNCHANGED pc
       ELSE /\ pc' = "close_in"
            /\ UNCHANGED <<outbuf, outSrc, pos>>
    /\ UNCHANGED <<env, fs, prefix, files, i, header, writer, discovered, outOpen,
                   inOpen, stdout, exitCode, fault, io, query>>

\* lines 41-42: one iteration of `for row in reader`, or its end
CopyRow ==
    /\ pc = "rows"
    /\ IF pos <= Len(fs[files[i]].rows)
       THEN /\ outbuf' = Append(outbuf, fs[files[i]].rows[pos])
            /\ outSrc' = Append(outSrc, [kind |-> "data", src |-> files[i], idx |-> pos])
            /\ pos' = pos + 1
            /\ UNCHANGED pc
       ELSE /\ pc' = "close_in"
            /\ UNCHANGED <<outbuf, outSrc, pos>>
    /\ UNCHANGED <<env, fs, prefix, files, i, header, writer, discovered, outOpen,
                   inOpen, stdout, exitCode, fault, io, query>>

\* variant: the input file is left open when the loop moves on
CloseInputLeavesOpen ==
    /\ pc = "close_in"
    /\ i' = i + 1
    /\ pc' = "loop"
    /\ UNCHANGED <<env, fs, prefix, files, header, writer, pos, discovered, outOpen,
                   inOpen, outbuf, outSrc, io, stdout, exitCode, fault, query>>

\* line 33, leaving `with open(file)` normally; the loop moves on
CloseInput ==
    /\ pc = "close_in"
    /\ inOpen' = inOpen \ {files[i]}
    /\ io' = Append(io, Ev("close_in", files[i]))
    /\ i' = i + 1
    /\ pc' = "loop"
    /\ UNCHANGED <<env, fs, prefix, files, header, writer, pos, discovered, outOpen,
                   outbuf, outSrc, stdout, exitCode, fault, query>>

\* line 28, leaving `with open(output_file, "w")` normally: flush and close
CloseOutput ==
    /\ pc = "close_out"
    /\ fs' = [fs EXCEPT ![OutPath] = File(outbuf)]
    /\ outOpen' = FALSE
    /\ io' = Append(io, Ev("close_out", OutPath))
    /\ pc' = "merged"
    /\ UNCHANGED <<env, locals, inOpen, outbuf, outSrc, stdout, exitCode, fault, query>>

\* line 44, then main() returns and the process ends with status 0
PrintMerged ==
    /\ pc = "merged"
    /\ stdout' = Append(stdout, Msg("Merged", OutPath))
    /\ Exit(0)
    /\ UNCHANGED <<env, fs, locals, outOpen, inOpen, outbuf, fault, hist, query>>

\* line 33, leaving `with open(file)` because an exception propagates
UnwindInput ==
    /\ pc = "unwind_in"
    /\ inOpen' = inOpen \ {files[i]}
    /\ io' = Append(io, Ev("close_in", files[i]))
    /\ pc' = "unwind_out"
    /\ UNCHANGED <<env, fs, locals, outOpen, outbuf, outSrc, stdout, exitCode, fault, query>>

\* line 28, leaving `with open(output_file, "w")` because an exception
\* propagates: flush and close; nothing catches the exception, so the
\* interpreter prints the traceback and ends the process with status 1
UnwindOutput ==
    /\ pc = "unwind_out"
    /\ fs' = [fs EXCEPT ![OutPath] = File(outbuf)]
    /\ outOpen' = FALSE
    /\ io' = Append(io, Ev("close_out", OutPath))
    /\ Exit(1)
    /\ UNCHANGED <<env, locals, inOpen, outbuf, outSrc, stdout, fault, query>>

\* after a merge has succeeded the program is started again with the same
\* arguments, in the directory the previous run left
Restart ==
    /\ pc = "exit"
    /\ exitCode = 0
    /\ run < MaxRuns
    /\ run' = run + 1
    /\ prev' = [code |-> exitCode,
                discovered |-> discovered,
                content |-> (IF prefix = <<>> THEN Absent ELSE fs[OutPath])]
    /\ fs0' = fs
    /\ pc' = "start"
    /\ prefix' = <<>>
    /\ files' = <<>>
    /\ i' = 0
    /\ header' = <<>>
    /\ writer' = FALSE
    /\ pos' = 0
    /\ outOpen' = FALSE
    /\ inOpen' = {}
    /\ outbuf' = <<>>
    /\ stdout' = <<>>
    /\ exitCode' = -1
    /\ fault' = "none"
    /\ discovered' = <<>>
    /\ outSrc' = <<>>
    /\ io' = <<>>
    /\ UNCHANGED <<argv, fs, query>>

Next ==
    \/ CheckArgs
    \/ Discover
    \/ Sort
    \/ OpenOutput
    \/ NextFile
    \/ OpenInput
    \/ ReadHeader
    \/ WriteHeader
    \/ CopyRow
    \/ CloseInput
    \/ CloseOutput
    \/ PrintMerged
    \/ UnwindInput
    \/ UnwindOutput
    \/ Restart

Spec == Init /\ [][Next]_vars

(***************************************************************************)
(* extract_year on its own: the call is applied to file names and prefixes *)
(* that need not come from glob.glob                                       *)
(***************************************************************************)
QHeads == {<<"s">>, <<"x", "s">>, <<>>}
QMiddles == {<<>>, <<"_", "2", "0", "2", "1">>, <<"_", "r", "1">>, <<"_", "a", NL, "b">>}
QSeparators == {<<"_">>, <<"x">>, <<>>}
QDigits == {<<"2", "0", "2", "3">>, <<"2", "0", "2">>, <<"2", "0", "2", "3", "4">>, <<"2", "o", "2", "3">>}
QExtensions == {<<".", "c", "s", "v">>, <<"x", "c", "s", "v">>, <<".", "c", "s">>}
QTrailers == {<<>>, <<NL>>, <<".", "b", "a", "k">>, <<NL, NL>>}

QNames ==
    {h \o m \o u \o d \o e \o t :
        h \in QHeads, m \in QMiddles, u \in QSeparators, d \in QDigits,
        e \in QExtensions, t \in QTrailers}

QPrefixes == {<<"s">>, <<"s", "_", "2">>, <<>>}

InitYear ==
    /\ qName \in QNames
    /\ qPrefix \in QPrefixes
    /\ qYear = -1
    /\ argv = <<>>
    /\ fs = MkDir(PrefixPlain, {}, <<>>, Absent)
    /\ fs0 = fs
    /\ run = 1
    /\ prev = NoPrev
    /\ Fresh

\* lines 7-10
CallExtractYear ==
    /\ qYear = -1
    /\ qYear' = extract_year(qName, qPrefix)
    /\ UNCHANGED <<argv, fs, pc, prefix, files, i, header, writer, pos, outOpen,
                   inOpen, outbuf, stdout, exitCode, fault, discovered, outSrc,
                   io, fs0, run, prev, qName, qPrefix>>

NextYear == CallExtractYear

SpecYear == InitYear /\ [][NextYear]_vars

(***************************************************************************)
(* Properties                                                              *)
(***************************************************************************)
EndsWith(s, p) == Len(s) >= Len(p) /\ SubSeq(s, Len(s) - Len(p) + 1, Len(s)) = p

\* the year the description of extract_year assigns to a name: the four
\* digits right before a final ".csv", when the name starts with the prefix
\* and an underscore lying after the prefix directly precedes the digits
DescribedYear(f, p) ==
    LET n == Len(f)
    IN  IF /\ StartsWith(f, p)
           /\ EndsWith(f, DotCsv)
           /\ n - 8 > Len(p)
           /\ f[n - 8] = "_"
           /\ \A k \in 1..4 : IsDigit(f[n - 8 + k])
        THEN IntOfGroup(f, n - 7)
        ELSE Inf

\* C6: extract_year(filename, prefix) is the integer of the four digits
\* immediately before the final ".csv" exactly when the name starts with the
\* prefix, an underscore after the prefix directly precedes the digits and
\* nothing follows ".csv"; otherwise it is the sentinel.
C6_YearAsDescribed == qYear # -1 => qYear = DescribedYear(qName, qPrefix)

\* a call that returns a year for a name with text after ".csv"
C6_TrailingNewlineCall ==
    /\ qYear # -1
    /\ qYear # Inf
    /\ ~EndsWith(qName, DotCsv)

\* on names without a newline the function is as described
C6_YearWithoutNewline ==
    (qYear # -1 /\ \A k \in 1..Len(qName) : qName[k] # NL)
        => qYear = DescribedYear(qName, qPrefix)

\* several "_dddd" groups: the one next to the extension is returned
C6_LastGroupCall ==
    /\ qYear = 2023
    /\ \E k \in 1..(Len(qName) - 4) : SubSeq(qName, k, k + 4) = <<"_", "2", "0", "2", "1">>

\* history rows describe the buffered rows: same length, same row values
RowOf(e) == fs0[e.src].rows[e.idx]

Key(f) == SortKey(f, prefix)

IndexIn(seq, x) == CHOOSE k \in 1..Len(seq) : seq[k] = x

Elems(seq) == {seq[k] : k \in 1..Len(seq)}

DataIdx == {k \in 1..Len(outSrc) : outSrc[k].kind = "data"}

\* C1: for two discovered files A, B with extracted years yA < yB, every
\* data row of A is written before every data row of B, whatever order
\* discovery returned them in.
C1_RowsInYearOrder ==
    LET year == [f \in Elems(discovered) |-> Key(f)]
    IN
    /\ Len(outSrc) = Len(outbuf)
    /\ \A k \in 1..Len(outSrc) : outbuf[k] = RowOf(outSrc[k])
    /\ \A a, b \in DataIdx :
          year[outSrc[a].src] < year[outSrc[b].src] => a < b
    /\ (pc = "exit" /\ exitCode = 0) =>
          \A A, B \in Elems(discovered) :
             year[A] < year[B] =>
                \A ra \in 2..Len(fs0[A].rows), rb \in 2..Len(fs0[B].rows) :
                   \E a, b \in DataIdx :
                      /\ a < b
                      /\ outSrc[a] = [kind |-> "data", src |-> A, idx |-> ra]
                      /\ outSrc[b] = [kind |-> "data", src |-> B, idx |-> rb]

\* a finished run in which discovery returned a later year first
C1_ReorderedRun ==
    /\ pc = "exit"
    /\ exitCode = 0
    /\ Len(discovered) >= 2
    /\ Key(discovered[2]) < Key(discovered[1])
    /\ Key(discovered[1]) # Inf
    /\ Len(fs0[discovered[1]].rows) >= 2
    /\ Len(fs0[discovered[2]].rows) >= 2
    /\ fs[OutPath].rows = outbuf

HeaderIdx == {k \in 1..Len(outSrc) : outSrc[k].kind = "header"}

\* C2: the output holds at most one header row; once a row is written the
\* first row is the header of the file that sorts first, written before any
\* data row; later files' headers are never written, also when they differ.
C2_HeaderOnce ==
    /\ Cardinality(HeaderIdx) <= 1
    /\ outbuf # <<>> =>
          /\ outSrc[1] = [kind |-> "header", src |-> files[1], idx |-> 1]
          /\ outbuf[1] = fs0[files[1]].rows[1]
          /\ \A k \in 2..Len(outSrc) : outSrc[k].kind = "data"
    /\ (outOpen /\ outbuf = <<>>) => ~writer
    /\ (pc = "exit" /\ exitCode = 0) => fs[OutPath].rows[1] = fs0[files[1]].rows[1]

\* a finished run over files whose headers differ
C2_DifferingHeadersRun ==
    /\ pc = "exit"
    /\ exitCode = 0
    /\ Len(files) >= 2
    /\ \E k \in 2..Len(files) : fs0[files[k]].rows[1] # fs0[files[1]].rows[1]

RECURSIVE DataRowsOf(_, _)
\* the data rows (all rows after the first) of the files fl, in order
DataRowsOf(fl, dir) ==
    IF fl = <<>> THEN <<>>
    ELSE Tail(dir[Head(fl)].rows) \o DataRowsOf(Tail(fl), dir)

RECURSIVE DataRowCount(_, _)
DataRowCount(S, dir) ==
    IF S = {} THEN 0
    ELSE LET f == CHOOSE x \in S : TRUE
         IN  (Len(dir[f].rows) - 1) + DataRowCount(S \ {f}, dir)

\* C3: a run that completes without fault leaves as output the first sorted
\* file's header followed by every file's data rows, in sorted-file order
\* and in-file order, unchanged: 1 + (sum of data row counts) rows, every
\* data row of every discovered file exactly once.
C3_OutputIsConcatenation ==
    (pc = "exit" /\ exitCode = 0) =>
        /\ fs[OutPath] = File(<<Head(fs0[files[1]].rows)>> \o DataRowsOf(files, fs0))
        /\ Len(fs[OutPath].rows) = 1 + DataRowCount(Elems(discovered), fs0)
        /\ \A f \in Elems(discovered) : \A r \in 2..Len(fs0[f].rows) :
              Cardinality({k \in DataIdx : outSrc[k].src = f /\ outSrc[k].idx = r}) = 1
        /\ Cardinality(DataIdx) = DataRowCount(Elems(discovered), fs0)

\* a finished run over three files, one of them without an extractable year
C3_ThreeFileRun ==
    /\ pc = "exit"
    /\ exitCode = 0
    /\ Len(discovered) = 3
    /\ \E f \in Elems(discovered) : Key(f) = Inf /\ Len(fs0[f].rows) >= 2
    /\ \E f \in Elems(discovered) : Key(f) # Inf /\ Len(fs0[f].rows) >= 3

\* C5: the sorted list is a permutation of the discovered list, ascending
\* by extracted year, files without a year after all files with one, and
\* files with equal keys in their discovery order.
C5_StableSortByYear ==
    (discovered # <<>> /\ pc # "sort") =>
        LET year == [f \in Elems(discovered) |-> Key(f)]
        IN  /\ Len(files) = Len(discovered)
            /\ Elems(files) = Elems(discovered)
            /\ \A a, b \in 1..Len(files) : a < b => year[files[a]] <= year[files[b]]
            /\ \A a, b \in 1..Len(files) :
                  (year[files[a]] = Inf /\ year[files[b]] # Inf) => b < a
            /\ \A a, b \in 1..Len(discovered) :
                  (a < b /\ year[discovered[a]] = year[discovered[b]])
                     => IndexIn(files, discovered[a]) < IndexIn(files, discovered[b])

\* a sorted list that differs from the discovered one and holds two files
\* of the same year, discovered after a file without a year
C5_SortedWithTies ==
    /\ pc = "open_out"
    /\ Len(discovered) = 3
    /\ files # discovered
    /\ Key(discovered[1]) = Inf
    /\ Key(discovered[2]) = Key(discovered[3])
    /\ Key(discovered[2]) # Inf

\* the run ends in one of the two errors main() checks for itself; the
\* second is decided on the directory the run started in
UsageError == Len(argv) # 1

NoInputError ==
    Len(argv) = 1 /\ Glob(GlobPattern(argv[1]), Existing(fs0)) = {}

\* C4: a run that ends in a usage error or a no-input error prints its
\* message and exits with code 1 without creating, truncating or writing
\* <prefix>.csv: the directory at exit is the directory at start.
C4_HandledErrorsLeaveFiles ==
    (UsageError \/ NoInputError) =>
        /\ fs = fs0
        /\ io = <<>>
        /\ ~outOpen
        /\ fault = "none"
        /\ pc \in {"start", "glob", "exit"}
        /\ pc = "exit" =>
              /\ exitCode = 1
              /\ UsageError => stdout = <<Msg("Usage", <<>>)>>
              /\ NoInputError => stdout = <<Msg("NoMatch", argv[1])>>

\* a no-input run that ended next to a <prefix>.csv left by someone else
C4_NoInputRunDone ==
    /\ pc = "exit"
    /\ NoInputError
    /\ fs[OutputName(argv[1])] = File(<<H2, R2>>)

RanToLoop == Len(argv) = 1 /\ discovered # <<>>

ProcessingLines(n) == [k \in 1..n |-> Msg("Processing", files[k])]

\* an input the loop cannot get a header from: unreadable, empty, or the
\* output file itself, which the run has truncated before it reads it
BadInput(f) ==
    \/ fs0[f].st # "file"
    \/ fs0[f].rows = <<>>
    \/ f = OutPath

BadIdx == {k \in 1..Len(files) : BadInput(files[k])}

OutputOpens == fs0[OutPath].st # "denied"

\* C7 as stated: with one argument and at least one discovered file the
\* process exits with code 0 after one "Processing" line per input, in
\* sorted order, and one final "Merged into" line; the exit code is 0 or 1.
C7_AlwaysSucceeds ==
    /\ exitCode \in {-1, 0, 1}
    /\ (pc = "exit" /\ RanToLoop) =>
          /\ exitCode = 0
          /\ stdout = Append(ProcessingLines(Len(files)), Msg("Merged", OutPath))

\* C7 amended: the same, provided the output file can be opened and every
\* discovered input can be opened and has a header row when it is read;
\* otherwise the run ends with the uncaught exception and exit code 1,
\* having printed the "Processing" lines up to the faulty file and no
\* "Merged into" line.
C7_SucceedsUnlessFault ==
    /\ exitCode \in {-1, 0, 1}
    /\ pc = "exit" <=> exitCode # -1
    /\ (pc = "exit" /\ RanToLoop) =>
          IF OutputOpens /\ BadIdx = {}
          THEN /\ exitCode = 0
               /\ fault = "none"
               /\ stdout = Append(ProcessingLines(Len(files)), Msg("Merged", OutPath))
          ELSE /\ exitCode = 1
               /\ fault # "none"
               /\ stdout = ProcessingLines(IF OutputOpens THEN SetMin(BadIdx) ELSE 0)

\* a successful run over three files
C7_SuccessfulRun ==
    /\ pc = "exit"
    /\ RanToLoop
    /\ exitCode = 0
    /\ Len(stdout) = 4

\* C8: when the k-th sorted input cannot be opened or is empty, the run
\* fails there: no later file is opened or read, "Merged into" is never
\* printed, the exit is not a success, and <prefix>.csv is left with the
\* first file's header and the data rows of files 1..k-1 (empty for k = 1),
\* whatever it held before.
C8_FaultStopsAndKeepsPartialOutput ==
    (pc = "exit" /\ RanToLoop /\ OutputOpens /\ BadIdx # {}) =>
        LET k == SetMin(BadIdx)
            done == SubSeq(files, 1, k - 1)
        IN  /\ exitCode # 0
            /\ fault # "none"
            /\ \A m \in 1..Len(stdout) : stdout[m].msg = "Processing"
            /\ Len(stdout) = k
            /\ \A m \in 1..Len(io) :
                  io[m].ev = "open_in" => \E j \in 1..k : io[m].path = files[j]
            /\ i = k
            /\ ~outOpen
            /\ inOpen = {}
            /\ fs[OutPath] =
                 File(IF k = 1 THEN <<>>
                      ELSE <<Head(fs0[files[1]].rows)>> \o DataRowsOf(done, fs0))
            /\ \A f \in Elems(files) : f # OutPath => fs[f] = fs0[f]

\* a run that failed at its second file of three, over an older output
C8_FaultAtSecondFile ==
    /\ pc = "exit"
    /\ RanToLoop
    /\ Len(files) = 3
    /\ BadIdx = {2}
    /\ fs0[OutPath] = File(<<H2, R2>>)
    /\ Len(fs[OutPath].rows) >= 2

\* glob.has_magic: the characters glob treats as wildcards
HasMagic(p) == \E k \in 1..Len(p) : p[k] \in {"*", "?", "["}

SameAsPreviousRun ==
    (/\ pc = "exit"
     /\ exitCode = 0
     /\ run > 1
     /\ prev.code = 0
     /\ prev.discovered = discovered) => fs[OutPath] = prev.content

\* C9 as stated: for any prefix, <prefix>.csv is never among the files the
\* pattern <prefix>_20*.csv discovers, so a second run does not read the
\* first run's output; two consecutive successful runs over unchanged
\* inputs, discovered in the same order, leave the same <prefix>.csv.
C9_OutputNeverDiscovered ==
    /\ prefix # <<>> => OutPath \notin Elems(discovered)
    /\ SameAsPreviousRun

\* C9 amended: the same for any prefix without the wildcard characters
\* `*`, `?` and `[`.
C9_OutputNotDiscoveredPlainPrefix ==
    (prefix # <<>> /\ ~HasMagic(prefix)) =>
        /\ OutPath \notin Elems(discovered)
        /\ OutPath \notin Glob(GlobPattern(prefix), Existing(fs))
        /\ SameAsPreviousRun

\* a second successful run next to the output of the first
C9_SecondRunDone ==
    /\ pc = "exit"
    /\ exitCode = 0
    /\ run = 2
    /\ prev.code = 0
    /\ Len(discovered) >= 2
    /\ prev.discovered = discovered
    /\ ~HasMagic(prefix)
    /\ fs0[OutPath].st = "file"

Count(kind) == Cardinality({k \in 1..Len(io) : io[k].ev = kind})

OpensOf(f) == Cardinality({k \in 1..Len(io) : io[k] = Ev("open_in", f)})

\* C10: at most one input file is open, and only while the output file is
\* open; each input is opened once, read to its end and closed before the
\* next is opened; the output is opened once, after discovery and sorting
\* and before any input, stays open during the concatenation and is closed
\* exactly once, before "Merged into" is printed.
C10_FileHandles ==
    /\ Cardinality(inOpen) <= 1
    /\ inOpen # {} => outOpen
    /\ outOpen <=> (Count("open_out") = 1 /\ Count("close_out") = 0)
    /\ Count("open_out") <= 1
    /\ Count("close_out") <= Count("open_out")
    /\ io # <<>> =>
          /\ io[1].ev = "open_out"
          /\ discovered # <<>>
          /\ files = SortFiles(discovered, prefix)
    /\ \A k \in 1..Len(io) : io[k].ev = "close_out" => k = Len(io)
    /\ \A f \in AllPaths : OpensOf(f) <= 1
    /\ \A k \in 1..Len(io) :
          io[k].ev = "open_in" =>
             /\ k = Len(io) <=> inOpen = {io[k].path}
             /\ k < Len(io) => io[k + 1] = Ev("close_in", io[k].path)
    /\ pc \in {"loop", "open_in", "header", "write_header", "rows", "close_in",
               "close_out", "unwind_in", "unwind_out"} => outOpen
    /\ pc = "close_in" => pos = Len(fs[files[i]].rows) + 1
    /\ (\E m \in 1..Len(stdout) : stdout[m].msg = "Merged") =>
          /\ Count("close_out") = 1
          /\ \A f \in Elems(files) : OpensOf(f) = 1
          /\ Len(io) = 2 + 2 * Len(files)

\* the second input is being copied while the output is open
C10_SecondInputOpen ==
    /\ pc = "rows"
    /\ i = 2
    /\ inOpen = {files[2]}
    /\ outOpen
    /\ pos > 2

====
